---- MODULE Spec2Model ----
(***************************************************************************)
(* A model of the ShortCrypt library (src/src/lib.rs): the key handle, the *)
(* raw transform (encrypt / decrypt), and the two transport encodings      *)
(* (URL component, QR-code alphanumeric) with their append variants.       *)
(*                                                                         *)
(* Bytes are naturals in 0..255.  A u64 is the sequence of its 8 bytes in  *)
(* big-endian order (the form `transmute(x.to_be())` gives), so that no    *)
(* arithmetic leaves the range of the model checker's integers.  Strings   *)
(* are the sequences of their UTF-8 bytes.                                 *)
(***************************************************************************)
EXTENDS Naturals, Sequences, FiniteSets

\* ------------------------------------------------------------------ bounds

\* Plaintexts are all byte strings over PlainBytes up to this length (plus
\* the fixed longer ones of LongPlaintexts).
MaxLen == 3

\* The swap loops are also run on every path in [0, n)^n for the lengths n
\* up to this one.
MaxSwapLen == 4

\* Received texts that did not come from an encoder are all strings over
\* TextBytes up to this length (plus every one-character ASCII string and
\* the fixed ones of FixedTexts).
MaxTextLen == 2

\* ------------------------------------------------------------ bytes and u64

Pow2(i) == 2 ^ i

Bit(b, i) == (b \div Pow2(i)) % 2

\* `^` on u8
Xor(a, b) ==
    LET x(i) == IF Bit(a, i) # Bit(b, i) THEN Pow2(i) ELSE 0
    IN  x(0) + x(1) + x(2) + x(3) + x(4) + x(5) + x(6) + x(7)

\* u8::reverse_bits, used bytewise by ReverseBits
ReverseByte(b) ==
    LET x(i) == Bit(b, i) * Pow2(7 - i)
    IN  x(0) + x(1) + x(2) + x(3) + x(4) + x(5) + x(6) + x(7)

\* 0u64
ZeroU64 == <<0, 0, 0, 0, 0, 0, 0, 0>>

\* u64::from(n) for a u8 n
U64From(n) == <<0, 0, 0, 0, 0, 0, 0, n>>

\* u64::wrapping_add(s, u64::from(n)): the carry out of the top byte is lost
RECURSIVE AddAt(_, _, _)
AddAt(s, i, c) ==
    IF i = 0 \/ c = 0 THEN s
    ELSE AddAt([s EXCEPT ![i] = (s[i] + c) % 256], i - 1, (s[i] + c) \div 256)

WrappingAdd(s, n) == AddAt(s, 8, n)

\* `^` on u64
XorU64(a, b) == [i \in 1..8 |-> Xor(a[i], b[i])]

\* u64::reverse_bits: bit i <-> bit 63 - i
ReverseBits(s) == [i \in 1..8 |-> ReverseByte(s[9 - i])]

\* x % (n as u64) for a small n > 0
RECURSIVE ModFrom(_, _, _, _)
ModFrom(s, i, r, n) ==
    IF i > 8 THEN r ELSE ModFrom(s, i + 1, (r * 256 + s[i]) % n, n)

ModU64(s, n) == ModFrom(s, 1, 0, n)

\* the wrapping sum of the bytes of a slice, added to a start value
RECURSIVE SumFrom(_, _, _)
SumFrom(acc, bytes, i) ==
    IF i > Len(bytes) THEN acc
    ELSE SumFrom(WrappingAdd(acc, bytes[i]), bytes, i + 1)

SumBytes(acc, bytes) == SumFrom(acc, bytes, 1)

\* the XOR fold of the bytes of a slice into a start value
RECURSIVE XorFrom(_, _, _)
XorFrom(acc, bytes, i) ==
    IF i > Len(bytes) THEN acc ELSE XorFrom(Xor(acc, bytes[i]), bytes, i + 1)

XorFold(acc, bytes) == XorFrom(acc, bytes, 1)

\* ------------------------------------------------------------------- CRCs

\* CRC-64/WE: polynomial 0x42F0E1EBA9EA3693, initial value and final XOR
\* 0xFFFFFFFFFFFFFFFF, not reflected.
Crc64Poly == <<66, 240, 225, 235, 169, 234, 54, 147>>

AllOnesU64 == <<255, 255, 255, 255, 255, 255, 255, 255>>

ShiftLeft1(s) ==
    [i \in 1..8 |-> ((s[i] * 2) % 256) + (IF i < 8 THEN s[i + 1] \div 128 ELSE 0)]

RECURSIVE Crc64Shift(_, _)
Crc64Shift(s, k) ==
    IF k = 0 THEN s
    ELSE Crc64Shift(IF s[1] >= 128 THEN XorU64(ShiftLeft1(s), Crc64Poly)
                    ELSE ShiftLeft1(s), k - 1)

Crc64Table == [b \in 0..255 |-> Crc64Shift(<<b, 0, 0, 0, 0, 0, 0, 0>>, 8)]

\* hasher.digest(bytes) on a running value
RECURSIVE Crc64Digest(_, _, _)
Crc64Digest(crc, bytes, i) ==
    IF i > Len(bytes) THEN crc
    ELSE Crc64Digest(
             XorU64(Tail(crc) \o <<0>>, Crc64Table[Xor(crc[1], bytes[i])]),
             bytes, i + 1)

\* CRCu64::crc64we() ... get_crc().to_be(): the 8 bytes, most significant first
Crc64We(bytes) == XorU64(Crc64Digest(AllOnesU64, bytes, 1), AllOnesU64)

\* CRC-8/CDMA2000: polynomial 0x9B, initial value 0xFF, not reflected, no
\* final XOR.
RECURSIVE Crc8Shift(_, _)
Crc8Shift(c, k) ==
    IF k = 0 THEN c
    ELSE Crc8Shift(IF c >= 128 THEN Xor((c * 2) % 256, 155) ELSE c * 2, k - 1)

Crc8Table == [b \in 0..255 |-> Crc8Shift(b, 8)]

RECURSIVE Crc8Digest(_, _, _)
Crc8Digest(crc, bytes, i) ==
    IF i > Len(bytes) THEN crc
    ELSE Crc8Digest(Crc8Table[Xor(crc, bytes[i])], bytes, i + 1)

\* CRCu8::crc8cdma2000() ... get_crc()
Crc8Cdma2000(bytes) == Crc8Digest(255, bytes, 1)

\* ------------------------------------------------------------- key handle

\* ShortCrypt::new: the handle
new(key_bytes) ==
    [hashed_key  |-> Crc64We(key_bytes),
     key_sum_rev |-> ReverseBits(SumBytes(ZeroU64, key_bytes))]

\* --------------------------------------------------- base character macros

\* u8_to_string_64!
u8_to_string_64(i) ==
    IF i < 10 THEN i + 48
    ELSE IF i >= 10 /\ i < 36 THEN i - 10 + 65
    ELSE IF i >= 36 /\ i < 62 THEN i - 36 + 97
    ELSE IF i = 62 THEN 45
    ELSE 95

\* string_64_to_u8!
string_64_to_u8(c) ==
    IF c >= 48 /\ c <= 57 THEN c - 48
    ELSE IF c >= 65 /\ c <= 90 THEN c + 10 - 65
    ELSE IF c >= 97 /\ c <= 122 THEN c + 36 - 97
    ELSE IF c = 45 THEN 62
    ELSE 63

\* u8_to_string_32! gone wrong: lower-case letters for 10..31
u8_to_string_32_lower(i) == IF i < 10 THEN i + 48 ELSE i - 10 + 97

\* u8_to_string_32!
u8_to_string_32(i) == IF i < 10 THEN i + 48 ELSE i - 10 + 65

\* The panics of a build with overflow checks
AddOverflow == "attempt to add with overflow"

SubOverflow == "attempt to subtract with overflow"

\* string_32_to_u8!: `$c + 10 - b'A'` is u8 arithmetic, evaluated left to
\* right.  `overflow` names the operation whose result leaves 0..255, if
\* one does; `value` is what wrapping arithmetic gives.
string_32_to_u8(c) ==
    IF c >= 48 /\ c <= 57 THEN [overflow |-> "", value |-> c - 48]
    ELSE [overflow |-> IF c + 10 > 255 THEN AddOverflow
                       ELSE IF c + 10 < 65 THEN SubOverflow
                       ELSE "",
          value    |-> (((c + 10) % 256) + 256 - 65) % 256]

\* ------------------------------------------------------------ body codecs

\* Bit p (0 = the most significant bit of the first byte) of a byte string,
\* 0 beyond its end.
BitAt(bytes, p) ==
    IF p < 8 * Len(bytes) THEN Bit(bytes[(p \div 8) + 1], 7 - (p % 8)) ELSE 0

\* The j-th (0-based) group of w bits of a byte string, as a number.
RECURSIVE GroupFrom(_, _, _, _)
GroupFrom(bytes, p, w, acc) ==
    IF w = 0 THEN acc
    ELSE GroupFrom(bytes, p + 1, w - 1, acc * 2 + BitAt(bytes, p))

Group(bytes, j, w) == GroupFrom(bytes, j * w, w, 0)

\* The URL-safe base-64 alphabet: A-Z a-z 0-9 - _
Base64UrlChar(v) ==
    IF v < 26 THEN 65 + v
    ELSE IF v < 52 THEN 97 + (v - 26)
    ELSE IF v < 62 THEN 48 + (v - 52)
    ELSE IF v = 62 THEN 45
    ELSE 95

Base64UrlValue(c) ==
    IF c >= 65 /\ c <= 90 THEN c - 65
    ELSE IF c >= 97 /\ c <= 122 THEN c - 97 + 26
    ELSE IF c >= 48 /\ c <= 57 THEN c - 48 + 52
    ELSE IF c = 45 THEN 62
    ELSE IF c = 95 THEN 63
    ELSE 64

\* The RFC 4648 base-32 alphabet: A-Z 2-7
Base32Char(v) == IF v < 26 THEN 65 + v ELSE 50 + (v - 26)

Base32Value(c) ==
    IF c >= 65 /\ c <= 90 THEN c - 65
    ELSE IF c >= 50 /\ c <= 55 THEN c - 50 + 26
    ELSE 32

\* base64_url::encode_to_string: unpadded, one character per 6 bits, the
\* last group filled with zero bits
Base64UrlEncode(bytes) ==
    [j \in 1..((8 * Len(bytes) + 5) \div 6) |-> Base64UrlChar(Group(bytes, j - 1, 6))]

\* base32::encode with Alphabet::RFC4648 { padding: false }: one character
\* per 5 bits, the last group filled with zero bits
Base32Encode(bytes) ==
    [j \in 1..((8 * Len(bytes) + 4) \div 5) |-> Base32Char(Group(bytes, j - 1, 5))]

\* The values of the characters of a text under an alphabet's inverse map.
Base64UrlValues(chars) == [j \in 1..Len(chars) |-> Base64UrlValue(chars[j])]

Base32Values(chars) == [j \in 1..Len(chars) |-> Base32Value(chars[j])]

\* Bit p of a sequence of w-bit values.
ValueBitAt(vals, p, w) == Bit(vals[(p \div w) + 1], w - 1 - (p % w))

\* The k-th (0-based) byte packed in a sequence of w-bit values.
RECURSIVE ByteFrom(_, _, _, _, _)
ByteFrom(vals, p, w, n, acc) ==
    IF n = 0 THEN acc
    ELSE ByteFrom(vals, p + 1, w, n - 1, acc * 2 + ValueBitAt(vals, p, w))

Unpack(vals, w) ==
    [k \in 1..((Len(vals) * w) \div 8) |-> ByteFrom(vals, (k - 1) * 8, w, 8, 0)]

\* The bits of a sequence of w-bit values left over after its whole bytes.
TrailingBits(vals, w) ==
    LET used == ((Len(vals) * w) \div 8) * 8
    IN  {p \in used..(Len(vals) * w - 1) : ValueBitAt(vals, p, w) = 1}

\* base64_url::decode: fails on a character outside the alphabet (padding
\* included), on a length no encoding has, and on non-zero trailing bits
Base64UrlDecode(chars) ==
    LET vals == Base64UrlValues(chars)
    IN  IF (\E j \in 1..Len(vals) : vals[j] > 63)
           \/ Len(chars) % 4 = 1
           \/ TrailingBits(vals, 6) # {}
        THEN [ok |-> FALSE, val |-> <<>>]
        ELSE [ok |-> TRUE, val |-> Unpack(vals, 6)]

\* base32::decode with Alphabet::RFC4648 { padding: false }: fails (None) on
\* a character outside the alphabet, non-ASCII bytes included; the bits
\* after the last whole byte are dropped
Base32Decode(chars) ==
    LET vals == Base32Values(chars)
    IN  IF \E j \in 1..Len(vals) : vals[j] > 31
        THEN [ok |-> FALSE, val |-> <<>>]
        ELSE [ok |-> TRUE, val |-> Unpack(vals, 5)]

\* String::insert(idx, ch) for a one-byte character; idx counts from 0
Insert(s, idx, ch) == SubSeq(s, 1, idx) \o <<ch>> \o SubSeq(s, idx + 1, Len(s))

\* [&bytes[..idx], &bytes[(idx + 1)..]].concat()
Remove(s, idx) == SubSeq(s, 1, idx) \o SubSeq(s, idx + 2, Len(s))

\* ---------------------------------------------------------- raw transform

\* self.hashed_key[i % 8] for a 0-based i
KeyByte(hashed_key, i) == hashed_key[(i % 8) + 1]

\* encrypt: the masking loop, before the swaps
Mask(hashed_key, base, data) ==
    [i \in 1..Len(data) |-> Xor(data[i], Xor(KeyByte(hashed_key, i - 1), base))]

\* encrypt / decrypt_inner: hashed_array, from base and the body
HashedArray(base, body) ==
    LET m   == XorFold(base, body)
        sum == SumBytes(U64From(base), body)
    IN  Crc64We(<<m>> \o sum)

\* encrypt / decrypt_inner: path (0-based indices), one entry per body byte
Path(hashed_key, base, body) ==
    LET hashed_array == HashedArray(base, body)
        len == Len(body)
    IN  [i \in 1..len |->
            Xor(KeyByte(hashed_array, i - 1), KeyByte(hashed_key, i - 1)) % len]

\* Vec::swap gone wrong: v[i] = v[p] alone, the byte at i lost
SwapOverwriting(v, i, p) == [v EXCEPT ![i + 1] = v[p + 1]]

\* Vec::swap(i, p) for 0-based i, p
Swap(v, i, p) == [v EXCEPT ![i + 1] = v[p + 1], ![p + 1] = v[i + 1]]

\* encrypt: `for (i, &p) in path.iter().enumerate()`, from 0-based i on
RECURSIVE SwapAscending(_, _, _)
SwapAscending(v, path, i) ==
    IF i >= Len(path) THEN v
    ELSE SwapAscending(IF i = path[i + 1] THEN v ELSE Swap(v, i, path[i + 1]),
                       path, i + 1)

\* decrypt_inner's swap loop gone wrong: `.rev()` left out, the entries
\* taken in ascending order
SwapDescendingNoRev(v, path, n) == SwapAscending(v, path, Len(path) - n)

\* decrypt_inner: `for (i, &p) in path.iter().enumerate().rev()`, with n
\* entries left
RECURSIVE SwapDescending(_, _, _)
SwapDescending(v, path, n) ==
    IF n = 0 THEN v
    ELSE SwapDescending(IF n - 1 = path[n] THEN v ELSE Swap(v, n - 1, path[n]),
                        path, n - 1)

\* ShortCrypt::encrypt: the Cipher pair <<base, body>>
encrypt(hashed_key, data) ==
    LET base      == Crc8Cdma2000(data) % 32
        encrypted == Mask(hashed_key, base, data)
        path      == Path(hashed_key, base, encrypted)
    IN  <<base, SwapAscending(encrypted, path, 0)>>

\* decrypt_inner gone wrong: the swaps undone in encrypt's ascending order
decrypt_inner_ascending(hashed_key, base, data, output) ==
    LET path      == Path(hashed_key, base, data)
        unswapped == SwapAscending(data, path, 0)
    IN  output \o Mask(hashed_key, base, unswapped)

\* ShortCrypt::decrypt_inner: output with the plaintext pushed to it
decrypt_inner(hashed_key, base, data, output) ==
    LET path      == Path(hashed_key, base, data)
        unswapped == SwapDescending(data, path, Len(path))
    IN  output \o Mask(hashed_key, base, unswapped)

\* Results: Ok(val) and Err(err)
Ok(val) == [ok |-> TRUE, val |-> val, err |-> ""]

Err(err) == [ok |-> FALSE, val |-> <<>>, err |-> err]

InvalidBase == "The base is not correct."

MalformedUrl == "The URL component is incorrect."

MalformedQr == "The QR code alphanumeric text is incorrect."

\* A panic: the call does not return
Panic(msg) == [ok |-> FALSE, val |-> <<>>, err |-> msg]

\* decrypt gone wrong: `base > 32`, the base 32 let through
decrypt_base_32_allowed(hashed_key, cipher) ==
    IF cipher[1] > 32 THEN Err(InvalidBase)
    ELSE Ok(decrypt_inner(hashed_key, cipher[1], cipher[2], <<>>))

\* decrypt gone wrong: `base >= 31`, the base 31 refused
decrypt_base_31_refused(hashed_key, cipher) ==
    IF cipher[1] >= 31 THEN Err(InvalidBase)
    ELSE Ok(decrypt_inner(hashed_key, cipher[1], cipher[2], <<>>))

\* ShortCrypt::decrypt
decrypt(hashed_key, cipher) ==
    IF cipher[1] > 31 THEN Err(InvalidBase)
    ELSE Ok(decrypt_inner(hashed_key, cipher[1], cipher[2], <<>>))

\* -------------------------------------------------------------- transport
\* Each operator gives the call's return value (`ret` or `result`) together
\* with the locals the properties speak of.

\* encrypt_to_url_component gone wrong: the sum started from the numeric
\* base, `base` not shadowed by its character
encrypt_to_url_component_numeric_sum(self, data) ==
    LET c          == encrypt(self.hashed_key, data)
        base       == u8_to_string_64(c[1])
        result     == Base64UrlEncode(c[2])
        sum        == SumBytes(U64From(c[1]), result)
        base_index == ModU64(XorU64(self.key_sum_rev, sum), Len(result) + 1)
    IN  [cipher |-> c, sum |-> sum, base_index |-> base_index,
         result |-> Insert(result, base_index, base)]

\* ShortCrypt::encrypt_to_url_component
encrypt_to_url_component(self, data) ==
    LET c          == encrypt(self.hashed_key, data)
        base       == u8_to_string_64(c[1])
        result     == Base64UrlEncode(c[2])
        sum        == SumBytes(U64From(base), result)
        base_index == ModU64(XorU64(self.key_sum_rev, sum), Len(result) + 1)
    IN  [cipher |-> c, sum |-> sum, base_index |-> base_index,
         result |-> Insert(result, base_index, base)]

\* encrypt_to_url_component_and_push_to_string gone wrong: the sum taken
\* over the whole of output, `.skip(original_len)` left out
encrypt_to_url_component_and_push_to_string_no_skip(self, data, output) ==
    LET c            == encrypt(self.hashed_key, data)
        base         == u8_to_string_64(c[1])
        original_len == Len(output)
        pushed       == output \o Base64UrlEncode(c[2])
        sum          == SumBytes(U64From(base), pushed)
        base_index   == ModU64(XorU64(self.key_sum_rev, sum),
                               Len(pushed) - original_len + 1)
    IN  [cipher |-> c, sum |-> sum, base_index |-> base_index,
         result |-> Insert(pushed, original_len + base_index, base)]

\* ShortCrypt::encrypt_to_url_component_and_push_to_string
encrypt_to_url_component_and_push_to_string(self, data, output) ==
    LET c            == encrypt(self.hashed_key, data)
        base         == u8_to_string_64(c[1])
        original_len == Len(output)
        pushed       == output \o Base64UrlEncode(c[2])
        sum          == SumBytes(U64From(base),
                                 SubSeq(pushed, original_len + 1, Len(pushed)))
        base_index   == ModU64(XorU64(self.key_sum_rev, sum),
                               Len(pushed) - original_len + 1)
    IN  [cipher |-> c, sum |-> sum, base_index |-> base_index,
         result |-> Insert(pushed, original_len + base_index, base)]

\* base32::encode with `padding: true`: '=' up to a multiple of 8 characters
Base32EncodePadded(bytes) ==
    LET e == Base32Encode(bytes)
    IN  e \o [j \in 1..((8 - (Len(e) % 8)) % 8) |-> 61]

\* encrypt_to_qr_code_alphanumeric gone wrong: `padding: true`
encrypt_to_qr_code_alphanumeric_padded(self, data) ==
    LET c          == encrypt(self.hashed_key, data)
        base       == u8_to_string_32(c[1])
        result     == Base32EncodePadded(c[2])
        sum        == SumBytes(U64From(base), result)
        base_index == ModU64(XorU64(self.key_sum_rev, sum), Len(result) + 1)
    IN  [cipher |-> c, sum |-> sum, base_index |-> base_index,
         result |-> Insert(result, base_index, base)]

\* encrypt_to_qr_code_alphanumeric gone wrong: the sum started from the
\* numeric base, `base` not shadowed by its character
encrypt_to_qr_code_alphanumeric_numeric_sum(self, data) ==
    LET c          == encrypt(self.hashed_key, data)
        base       == u8_to_string_32(c[1])
        result     == Base32Encode(c[2])
        sum        == SumBytes(U64From(c[1]), result)
        base_index == ModU64(XorU64(self.key_sum_rev, sum), Len(result) + 1)
    IN  [cipher |-> c, sum |-> sum, base_index |-> base_index,
         result |-> Insert(result, base_index, base)]

\* ShortCrypt::encrypt_to_qr_code_alphanumeric
encrypt_to_qr_code_alphanumeric(self, data) ==
    LET c          == encrypt(self.hashed_key, data)
        base       == u8_to_string_32(c[1])
        result     == Base32Encode(c[2])
        sum        == SumBytes(U64From(base), result)
        base_index == ModU64(XorU64(self.key_sum_rev, sum), Len(result) + 1)
    IN  [cipher |-> c, sum |-> sum, base_index |-> base_index,
         result |-> Insert(result, base_index, base)]

\* ShortCrypt::encrypt_to_qr_code_alphanumeric_and_push_to_string
encrypt_to_qr_code_alphanumeric_and_push_to_string(self, data, output) ==
    LET c            == encrypt(self.hashed_key, data)
        base         == u8_to_string_32(c[1])
        original_len == Len(output)
        pushed       == output \o Base32Encode(c[2])
        sum          == SumBytes(U64From(base),
                                 SubSeq(pushed, original_len + 1, Len(pushed)))
        base_index   == ModU64(XorU64(self.key_sum_rev, sum),
                               Len(pushed) - original_len + 1)
    IN  [cipher |-> c, sum |-> sum, base_index |-> base_index,
         result |-> Insert(pushed, original_len + base_index, base)]

\* What a decoder gives when it returns before it has a base or a body.
Early(ret, sum, base_index) ==
    [ret |-> ret, sum |-> sum, base_index |-> base_index, cipher |-> <<0, <<>>>>]

\* decrypt_url_component*: `base_index`, from the whole text
RecoverIndex(self, bytes) ==
    ModU64(XorU64(self.key_sum_rev, SumBytes(ZeroU64, bytes)), Len(bytes))

\* ShortCrypt::decrypt_url_component
decrypt_url_component(self, url_component) ==
    LET bytes      == url_component
        len        == Len(bytes)
        sum        == SumBytes(ZeroU64, bytes)
        base_index == RecoverIndex(self, bytes)
        base       == string_64_to_u8(bytes[base_index + 1])
        encrypted  == Base64UrlDecode(Remove(bytes, base_index))
    IN  IF len < 1 THEN Early(Err(MalformedUrl), ZeroU64, 0)
        ELSE IF base > 31 THEN Early(Err(MalformedUrl), sum, base_index)
        ELSE IF ~encrypted.ok THEN Early(Err(MalformedUrl), sum, base_index)
        ELSE [ret |-> decrypt(self.hashed_key, <<base, encrypted.val>>),
              sum |-> sum, base_index |-> base_index,
              cipher |-> <<base, encrypted.val>>]

\* ShortCrypt::decrypt_url_component_and_push_to_vec
decrypt_url_component_and_push_to_vec(self, url_component, output) ==
    LET bytes      == url_component
        len        == Len(bytes)
        sum        == SumBytes(ZeroU64, bytes)
        base_index == RecoverIndex(self, bytes)
        base       == string_64_to_u8(bytes[base_index + 1])
        encrypted  == Base64UrlDecode(Remove(bytes, base_index))
    IN  IF len < 1 THEN Early(Err(MalformedUrl), ZeroU64, 0)
        ELSE IF base > 31 THEN Early(Err(MalformedUrl), sum, base_index)
        ELSE IF ~encrypted.ok THEN Early(Err(MalformedUrl), sum, base_index)
        ELSE [ret |-> Ok(decrypt_inner(self.hashed_key, base, encrypted.val, output)),
              sum |-> sum, base_index |-> base_index,
              cipher |-> <<base, encrypted.val>>]

\* ShortCrypt::decrypt_qr_code_alphanumeric.  String::from_utf8 and
\* base32::decode both refuse a remainder with a non-ASCII byte, with the
\* same error, so that Base32Decode stands for the two.  In a build with
\* overflow checks an overflow in string_32_to_u8! panics; in one without,
\* the wrapped value goes on to the `base > 31` test.
decrypt_qr_code_alphanumeric(self, overflow_checks, qr_code_alphanumeric) ==
    LET bytes      == qr_code_alphanumeric
        len        == Len(bytes)
        sum        == SumBytes(ZeroU64, bytes)
        base_index == RecoverIndex(self, bytes)
        b          == string_32_to_u8(bytes[base_index + 1])
        base       == b.value
        encrypted  == Base32Decode(Remove(bytes, base_index))
    IN  IF len < 1 THEN Early(Err(MalformedQr), ZeroU64, 0)
        ELSE IF overflow_checks /\ b.overflow # ""
             THEN Early(Panic(b.overflow), sum, base_index)
        ELSE IF base > 31 THEN Early(Err(MalformedQr), sum, base_index)
        ELSE IF ~encrypted.ok THEN Early(Err(MalformedQr), sum, base_index)
        ELSE [ret |-> decrypt(self.hashed_key, <<base, encrypted.val>>),
              sum |-> sum, base_index |-> base_index,
              cipher |-> <<base, encrypted.val>>]

\* ShortCrypt::decrypt_qr_code_alphanumeric_and_push_to_vec
decrypt_qr_code_alphanumeric_and_push_to_vec(self, overflow_checks, qr_code_alphanumeric, output) ==
    LET bytes      == qr_code_alphanumeric
        len        == Len(bytes)
        sum        == SumBytes(ZeroU64, bytes)
        base_index == RecoverIndex(self, bytes)
        b          == string_32_to_u8(bytes[base_index + 1])
        base       == b.value
        encrypted  == Base32Decode(Remove(bytes, base_index))
    IN  IF len < 1 THEN Early(Err(MalformedQr), ZeroU64, 0)
        ELSE IF overflow_checks /\ b.overflow # ""
             THEN Early(Panic(b.overflow), sum, base_index)
        ELSE IF base > 31 THEN Early(Err(MalformedQr), sum, base_index)
        ELSE IF ~encrypted.ok THEN Early(Err(MalformedQr), sum, base_index)
        ELSE [ret |-> Ok(decrypt_inner(self.hashed_key, base, encrypted.val, output)),
              sum |-> sum, base_index |-> base_index,
              cipher |-> <<base, encrypted.val>>]

\* ------------------------------------------------------------------ inputs

\* All sequences over S of length lo..hi.
SeqsOf(S, lo, hi) == UNION {[1..n -> S] : n \in lo..hi}

\* "", "k", "magickey"
Keys == {<<>>, <<107>>, <<109, 97, 103, 105, 99, 107, 101, 121>>}

PlainBytes == {0, 97, 255}

\* "articles", "articles/42"
LongPlaintexts ==
    {<<97, 114, 116, 105, 99, 108, 101, 115>>,
     <<97, 114, 116, 105, 99, 108, 101, 115, 47, 52, 50>>}

Plaintexts == SeqsOf(PlainBytes, 0, MaxLen) \cup LongPlaintexts

\* Texts an encoder is asked to append to: "", "https://magiclen.org/" and
\* one with a two-byte character, "é=".
StringBufs ==
    {<<>>,
     <<104, 116, 116, 112, 115, 58, 47, 47, 109, 97, 103, 105, 99, 108, 101,
       110, 46, 111, 114, 103, 47>>,
     <<195, 169, 61>>}

\* Byte buffers a decoder is asked to append to.
VecBufs == {<<>>, <<0, 255>>}

\* Pairs given to decrypt that no encrypt produced.
Bodies ==
    {<<>>, <<0>>, <<255, 0, 7>>,
     <<216, 78, 214, 199, 157, 190, 78, 250>>,
     <<1, 2, 3, 4, 5, 6, 7, 8, 9>>}

Ciphers == {0, 8, 31, 32, 255} \X Bodies

\* ' ', '-', '8', ':', 'A', 'W', 'a'
TextBytes == {32, 45, 56, 58, 65, 87, 97}

\* "2E87Wx52-Tvo", "3BHNNR45XZH8PU", then the same with the last character
\* changed ("2E87Wx52-Tv*", "3BHNNR45XZH8P1"), "é" and "Aé"
FixedTexts ==
    {<<50, 69, 56, 55, 87, 120, 53, 50, 45, 84, 118, 111>>,
     <<51, 66, 72, 78, 78, 82, 52, 53, 88, 90, 72, 56, 80, 85>>,
     <<50, 69, 56, 55, 87, 120, 53, 50, 45, 84, 118, 42>>,
     <<51, 66, 72, 78, 78, 82, 52, 53, 88, 90, 72, 56, 80, 49>>,
     <<195, 169>>,
     <<65, 195, 169>>}

\* Texts given to a decoder that no encoder produced (valid UTF-8, as a
\* &str is): the empty one, every one-character ASCII text, the short ones
\* over TextBytes, and the fixed ones.
Texts ==
    {<<>>} \cup SeqsOf(0..127, 1, 1) \cup SeqsOf(TextBytes, 2, MaxTextLen)
    \cup FixedTexts

\* ------------------------------------------------------------------- state

VARIABLES
    overflow_checks,  \* the build: TRUE when u8 overflow panics (debug)
    key,              \* the key the current handle was made from
    sc,               \* the handle: [hashed_key, key_sum_rev]
    op,               \* the latest call
    data,             \* the plaintext given to the latest encrypt* call
    cipher,           \* the (base, body) pair encrypt returned, or the one
                      \* the latest decrypt* call decrypted
    text,             \* the text an encoder returned or a decoder was given
    output,           \* the buffer the latest *_and_push_* call was given
    ret,              \* what the latest decrypt* call returned
    sum,              \* the latest transport call's `sum`
    base_index,       \* the latest transport call's `base_index`
    sent,             \* what is on its way from an encrypt* call to a
                      \* decrypt* call: its kind, the handle that made it,
                      \* encrypt's base and the encoder's base_index
    swaps             \* the swap loops run on their own: the bytes v they
                      \* started from, the path, the bytes now (encrypted)
                      \* and the passes run so far

vars == <<overflow_checks, key, sc, op, data, cipher, text, output, ret, sum,
          base_index, sent, swaps>>

Nothing == [kind |-> "none", sc |-> new(<<>>), base |-> 0, base_index |-> 0]

NoRet == Ok(<<>>)

NoSwaps == [v |-> <<>>, path |-> <<>>, encrypted |-> <<>>, passes |-> <<>>]

EncodeOps ==
    {"encrypt", "encrypt_to_url_component",
     "encrypt_to_url_component_and_push_to_string",
     "encrypt_to_qr_code_alphanumeric",
     "encrypt_to_qr_code_alphanumeric_and_push_to_string"}

UrlDecodeOps == {"decrypt_url_component", "decrypt_url_component_and_push_to_vec"}

QrDecodeOps ==
    {"decrypt_qr_code_alphanumeric", "decrypt_qr_code_alphanumeric_and_push_to_vec"}

DecodeOps == {"decrypt"} \cup UrlDecodeOps \cup QrDecodeOps

\* Nothing is on its way: a call takes its argument from the caller.
Idle == op = "new" /\ sent.kind = "none"

\* Something of this kind is on its way and no decrypt* call has taken it.
Pending(kind) == sent.kind = kind /\ op \notin DecodeOps

\* The text on its way, without the text the encoder appended to.
Received == SubSeq(text, Len(output) + 1, Len(text))

Init ==
    /\ overflow_checks \in BOOLEAN
    /\ key \in Keys
    /\ sc = new(key)
    /\ op = "new"
    /\ data = <<>>
    /\ cipher = <<0, <<>>>>
    /\ text = <<>>
    /\ output = <<>>
    /\ ret = NoRet
    /\ sum = ZeroU64
    /\ base_index = 0
    /\ sent = Nothing
    /\ swaps = NoSwaps

\* ShortCrypt::new(k).  What is on its way stays; what a decrypt* call has
\* taken is gone.
New(k) ==
    /\ key' = k
    /\ sc' = new(k)
    /\ op' = "new"
    /\ IF sent.kind # "none" /\ op \notin DecodeOps
       THEN UNCHANGED <<data, cipher, text, output, sent>>
       ELSE /\ data' = <<>>
            /\ cipher' = <<0, <<>>>>
            /\ text' = <<>>
            /\ output' = <<>>
            /\ sent' = Nothing
    /\ ret' = NoRet
    /\ sum' = ZeroU64
    /\ base_index' = 0
    /\ UNCHANGED <<overflow_checks, swaps>>

\* sc.encrypt(p)
Encrypt(p) ==
    /\ Idle
    /\ op' = "encrypt"
    /\ data' = p
    /\ cipher' = encrypt(sc.hashed_key, p)
    /\ sent' = [kind |-> "raw", sc |-> sc, base |-> cipher'[1], base_index |-> 0]
    /\ UNCHANGED <<overflow_checks, key, sc, text, output, ret, sum, base_index,
                   swaps>>

\* sc.decrypt(&c)
Decrypt(c) ==
    /\ op' = "decrypt"
    /\ cipher' = c
    /\ ret' = decrypt(sc.hashed_key, c)
    /\ UNCHANGED <<overflow_checks, key, sc, data, text, output, sum,
                   base_index, sent, swaps>>

\* An encoder's call: r is what the encoder's operator gives.
Encoded(name, kind, p, buf, r) ==
    /\ Idle
    /\ op' = name
    /\ data' = p
    /\ output' = buf
    /\ cipher' = r.cipher
    /\ text' = r.result
    /\ sum' = r.sum
    /\ base_index' = r.base_index
    /\ sent' = [kind |-> kind, sc |-> sc, base |-> r.cipher[1],
                base_index |-> r.base_index]
    /\ UNCHANGED <<overflow_checks, key, sc, ret, swaps>>

\* sc.encrypt_to_url_component(p)
EncryptToUrlComponent(p) ==
    Encoded("encrypt_to_url_component", "url", p, <<>>,
            encrypt_to_url_component(sc, p))

\* sc.encrypt_to_url_component_and_push_to_string(p, q)
EncryptToUrlComponentAndPushToString(p, q) ==
    Encoded("encrypt_to_url_component_and_push_to_string", "url", p, q,
            encrypt_to_url_component_and_push_to_string(sc, p, q))

\* sc.encrypt_to_qr_code_alphanumeric(p)
EncryptToQrCodeAlphanumeric(p) ==
    Encoded("encrypt_to_qr_code_alphanumeric", "qr", p, <<>>,
            encrypt_to_qr_code_alphanumeric(sc, p))

\* sc.encrypt_to_qr_code_alphanumeric_and_push_to_string(p, q)
EncryptToQrCodeAlphanumericAndPushToString(p, q) ==
    Encoded("encrypt_to_qr_code_alphanumeric_and_push_to_string", "qr", p, q,
            encrypt_to_qr_code_alphanumeric_and_push_to_string(sc, p, q))

\* A decoder's call on the text t: r is what the decoder's operator gives.
Decoded(name, t, buf, r) ==
    /\ op' = name
    /\ text' = t
    /\ output' = buf
    /\ cipher' = r.cipher
    /\ ret' = r.ret
    /\ sum' = r.sum
    /\ base_index' = r.base_index
    /\ UNCHANGED <<overflow_checks, key, sc, data, sent, swaps>>

\* sc.decrypt_url_component(t)
DecryptUrlComponent(t) ==
    Decoded("decrypt_url_component", t, <<>>, decrypt_url_component(sc, t))

\* sc.decrypt_url_component_and_push_to_vec(t, v)
DecryptUrlComponentAndPushToVec(t, v) ==
    Decoded("decrypt_url_component_and_push_to_vec", t, v,
            decrypt_url_component_and_push_to_vec(sc, t, v))

\* sc.decrypt_qr_code_alphanumeric(t)
DecryptQrCodeAlphanumeric(t) ==
    Decoded("decrypt_qr_code_alphanumeric", t, <<>>,
            decrypt_qr_code_alphanumeric(sc, overflow_checks, t))

\* sc.decrypt_qr_code_alphanumeric_and_push_to_vec(t, v)
DecryptQrCodeAlphanumericAndPushToVec(t, v) ==
    Decoded("decrypt_qr_code_alphanumeric_and_push_to_vec", t, v,
            decrypt_qr_code_alphanumeric_and_push_to_vec(sc, overflow_checks, t, v))

\* The pairs and texts a decrypt* call can be given: the one on its way, or
\* any when nothing is.
CiphersAtHand == IF Idle THEN Ciphers ELSE IF Pending("raw") THEN {cipher} ELSE {}

TextsAtHand(kind) == IF Idle THEN Texts ELSE IF Pending(kind) THEN {Received} ELSE {}

Next ==
    \/ \E k \in Keys : New(k)
    \/ \E p \in Plaintexts : Encrypt(p)
    \/ \E c \in CiphersAtHand : Decrypt(c)
    \/ \E p \in Plaintexts : EncryptToUrlComponent(p)
    \/ \E p \in Plaintexts, q \in StringBufs : EncryptToUrlComponentAndPushToString(p, q)
    \/ \E p \in Plaintexts : EncryptToQrCodeAlphanumeric(p)
    \/ \E p \in Plaintexts, q \in StringBufs : EncryptToQrCodeAlphanumericAndPushToString(p, q)
    \/ \E t \in TextsAtHand("url") : DecryptUrlComponent(t)
    \/ \E t \in TextsAtHand("url"), v \in VecBufs : DecryptUrlComponentAndPushToVec(t, v)
    \/ \E t \in TextsAtHand("qr") : DecryptQrCodeAlphanumeric(t)
    \/ \E t \in TextsAtHand("qr"), v \in VecBufs : DecryptQrCodeAlphanumericAndPushToVec(t, v)

Spec == Init /\ [][Next]_vars

\* ------------------------------------------------- the swap loops alone
\* encrypt's and decrypt_inner's swap loops, run on any path: the paths the
\* hash gives are some of [0, n)^n, and which ones is the hash's affair.

\* <<0, 1, .., n - 1>>: bytes that tell the positions apart
Positions(n) == [i \in 1..n |-> i - 1]

\* The paths of length n: every entry is `.. as usize % len`
Paths(n) == [1..n -> 0..(n - 1)]

\* The bodies the loops start from: distinct bytes, and bytes that repeat
SwapBodies(n) == {Positions(n)} \cup [1..n -> {0, 255}]

SwapInit ==
    /\ overflow_checks = FALSE
    /\ key = <<>>
    /\ sc = new(key)
    /\ op = "new"
    /\ data = <<>>
    /\ cipher = <<0, <<>>>>
    /\ text = <<>>
    /\ output = <<>>
    /\ ret = NoRet
    /\ sum = ZeroU64
    /\ base_index = 0
    /\ sent = Nothing
    /\ \E n \in 0..MaxSwapLen : \E v \in SwapBodies(n), path \in Paths(n) :
           swaps = [v |-> v, path |-> path, encrypted |-> v, passes |-> <<>>]

\* encrypt, lines 233-239: one pass of the swaps, i ascending
SwapPassAscending ==
    /\ Len(swaps.passes) < 2
    /\ swaps' = [swaps EXCEPT
                     !.encrypted = SwapAscending(swaps.encrypted, swaps.path, 0),
                     !.passes = Append(swaps.passes, "ascending")]
    /\ UNCHANGED <<overflow_checks, key, sc, op, data, cipher, text, output,
                   ret, sum, base_index, sent>>

\* decrypt_inner, lines 292-298: one pass of the swaps, i descending
SwapPassDescending ==
    /\ Len(swaps.passes) < 2
    /\ swaps' = [swaps EXCEPT
                     !.encrypted = SwapDescending(swaps.encrypted, swaps.path,
                                                  Len(swaps.path)),
                     !.passes = Append(swaps.passes, "descending")]
    /\ UNCHANGED <<overflow_checks, key, sc, op, data, cipher, text, output,
                   ret, sum, base_index, sent>>

SwapNext == SwapPassAscending \/ SwapPassDescending

SwapSpec == SwapInit /\ [][SwapNext]_vars

\* ------------------------------------------------------------- properties

Range(f) == {f[i] : i \in DOMAIN f}

Count(f, b) == Cardinality({i \in DOMAIN f : f[i] = b})

\* Two byte strings hold the same bytes, each as often.
SameBytes(a, b) ==
    /\ Len(a) = Len(b)
    /\ \A x \in Range(a) \cup Range(b) : Count(a, x) = Count(b, x)

\* The body of the latest encrypt, before its swaps.
Masked == Mask(sc.hashed_key, cipher[1], data)

\* C1: decrypt, called with the handle that encrypted, on the pair encrypt
\* returned for the plaintext P gives Ok(P); and the XOR fold and the
\* wrapping sum decrypt hashes to find the path are those encrypt hashed,
\* whatever the swaps did (so the paths agree for any hash function).
RawRoundTrip ==
    (op = "decrypt" /\ sent.kind = "raw" /\ sent.sc = sc) =>
        /\ ret = Ok(data)
        /\ XorFold(cipher[1], cipher[2]) = XorFold(cipher[1], Masked)
        /\ SumBytes(U64From(cipher[1]), cipher[2])
               = SumBytes(U64From(cipher[1]), Masked)

\* A plaintext longer than 8 bytes, whose body the swaps reordered, has
\* come back from decrypt.
RawRoundTripWitness ==
    /\ op = "decrypt" /\ sent.kind = "raw" /\ sent.sc = sc
    /\ Len(data) > 8
    /\ cipher[2] # Masked
    /\ ret = Ok(data)

\* C2: a transport decoder, called with the handle that encoded, on the
\* text the encoder returned for P gives P (after the buffer it appends
\* to); the index it recovers is the one the encoder inserted the base
\* character at, and the character there decodes to encrypt's base.
TransportRoundTrip ==
    (op \in UrlDecodeOps \cup QrDecodeOps /\ sent.kind \in {"url", "qr"}
     /\ sent.sc = sc) =>
        /\ ret = Ok(output \o data)
        /\ base_index = sent.base_index
        /\ cipher[1] = sent.base
        /\ op \in UrlDecodeOps => string_64_to_u8(text[base_index + 1]) = sent.base
        /\ op \in QrDecodeOps => string_32_to_u8(text[base_index + 1]).value = sent.base

\* A URL text with the base character strictly inside it has been decoded
\* back to its plaintext.
TransportRoundTripWitness ==
    /\ op = "decrypt_url_component" /\ sent.kind = "url" /\ sent.sc = sc
    /\ Len(data) > 8
    /\ base_index > 0 /\ base_index < Len(text) - 1
    /\ ret = Ok(data)

\* What an appending decoder must return, given what the plain one returns.
Appended(r, buf) == IF r.ok THEN Ok(buf \o r.val) ELSE r

\* C3: an appending encoder returns the buffer it was given followed by
\* what the plain encoder returns; an appending decoder fails as the plain
\* decoder does and otherwise returns its buffer followed by the plain
\* decoder's bytes.
AppendIsPrefixPlusPlain ==
    /\ op = "encrypt_to_url_component_and_push_to_string" =>
           text = output \o encrypt_to_url_component(sc, data).result
    /\ op = "encrypt_to_qr_code_alphanumeric_and_push_to_string" =>
           text = output \o encrypt_to_qr_code_alphanumeric(sc, data).result
    /\ op = "decrypt_url_component_and_push_to_vec" =>
           ret = Appended(decrypt_url_component(sc, text).ret, output)
    /\ op = "decrypt_qr_code_alphanumeric_and_push_to_vec" =>
           ret = Appended(decrypt_qr_code_alphanumeric(sc, overflow_checks, text).ret,
                          output)

\* The URL encoder has appended to a non-empty buffer whose bytes, had they
\* been summed, would have moved the base character.
AppendWitness ==
    /\ op = "encrypt_to_url_component_and_push_to_string"
    /\ output # <<>>
    /\ data # <<>>
    /\ ModU64(XorU64(sc.key_sum_rev, SumBytes(sum, output)),
              Len(text) - Len(output))
           # base_index

\* C4: the URL text of an n-byte plaintext has ceil(4n/3) + 1 characters,
\* the QR text ceil(8n/5) + 1 (counted after the buffer appended to).
EncodedLength ==
    /\ op \in {"encrypt_to_url_component",
               "encrypt_to_url_component_and_push_to_string"} =>
           Len(Received) = ((4 * Len(data) + 2) \div 3) + 1
    /\ op \in {"encrypt_to_qr_code_alphanumeric",
               "encrypt_to_qr_code_alphanumeric_and_push_to_string"} =>
           Len(Received) = ((8 * Len(data) + 4) \div 5) + 1

\* An 11-byte plaintext has been encoded for a QR code: 18 + 1 characters,
\* where a padded encoding would have 24.
EncodedLengthWitness ==
    /\ op = "encrypt_to_qr_code_alphanumeric"
    /\ Len(data) = 11
    /\ Len(text) = 19

\* C5: encrypt returns a base in 0..31 and a body as long as the plaintext
\* that holds the masked bytes, each as often; every path entry is an index
\* of the body.
CipherShape ==
    op = "encrypt" =>
        /\ cipher[1] \in 0..31
        /\ Len(cipher[2]) = Len(data)
        /\ SameBytes(cipher[2], Masked)
        /\ \A i \in 1..Len(data) :
               Path(sc.hashed_key, cipher[1], Masked)[i] \in 0..(Len(data) - 1)

\* encrypt has returned a body longer than 8 bytes that its swaps reordered.
CipherShapeWitness ==
    /\ op = "encrypt"
    /\ Len(data) > 8
    /\ cipher[2] # Masked

\* C6: decrypt on a pair whose base is above 31 returns the InvalidBase
\* error and no bytes; each transport decoder returns its Malformed error
\* on the empty text.
RejectsInvalid ==
    /\ (op = "decrypt" /\ cipher[1] > 31) => ret = Err(InvalidBase)
    /\ (op \in UrlDecodeOps /\ text = <<>>) => ret = Err(MalformedUrl)
    /\ (op \in QrDecodeOps /\ text = <<>>) => ret = Err(MalformedQr)

\* decrypt has refused a non-empty body whose base is 32.
RejectsInvalidWitness ==
    /\ op = "decrypt"
    /\ cipher[1] = 32
    /\ cipher[2] # <<>>
    /\ ~ret.ok

\* C7: decrypt on any pair whose base is in 0..31 returns Ok with as many
\* bytes as the body has, whatever handle made the pair.
NoIntegrityCheck ==
    (op = "decrypt" /\ cipher[1] \in 0..31) =>
        /\ ret.ok
        /\ Len(ret.val) = Len(cipher[2])

\* decrypt, called with another handle than the one that encrypted, has
\* returned bytes that are not the plaintext.
NoIntegrityCheckWitness ==
    /\ op = "decrypt" /\ sent.kind = "raw" /\ sent.sc # sc
    /\ data # <<>>
    /\ ret.ok
    /\ ret.val # data

\* The characters of the QR code alphanumeric mode: 0-9, A-Z, space and
\* $ % * + - . / :
QrAlphanumeric == (48..57) \cup (65..90) \cup {32, 36, 37, 42, 43, 45, 46, 47, 58}

\* C8: every character the QR encoder produces (the appended part, for the
\* appending encoder) is of the QR code alphanumeric mode.
QrOutputAlphabet ==
    op \in {"encrypt_to_qr_code_alphanumeric",
            "encrypt_to_qr_code_alphanumeric_and_push_to_string"} =>
        Range(Received) \subseteq QrAlphanumeric

\* The QR encoder has inserted a base character that is a letter.
QrOutputAlphabetWitness ==
    /\ op = "encrypt_to_qr_code_alphanumeric"
    /\ data # <<>>
    /\ cipher[1] >= 10
    /\ Received[base_index + 1] = u8_to_string_32(cipher[1])

\* The encoded body of the latest encoder call: its text without the
\* buffer appended to and without the base character.
EncodedBody == Remove(Received, base_index)

TransportEncodeOps == EncodeOps \ {"encrypt"}

\* C9 as stated: the encoder's sum is the numeric base plus the byte values
\* of the encoded body, and the insertion index is
\* (key_sum_rev XOR sum) mod (|B| + 1).
InsertionSumOfNumericBase ==
    op \in TransportEncodeOps =>
        /\ sum = SumBytes(U64From(cipher[1]), EncodedBody)
        /\ base_index = ModU64(XorU64(sc.key_sum_rev, sum), Len(EncodedBody) + 1)

\* C9 as amended: the encoder's sum is the character code of the base
\* character plus the byte values of the encoded body, and the insertion
\* index is (key_sum_rev XOR sum) mod (|B| + 1).
InsertionSumOfBaseCharacter ==
    op \in TransportEncodeOps =>
        /\ sum = SumBytes(U64From(Received[base_index + 1]), EncodedBody)
        /\ Received[base_index + 1] =
               (IF sent.kind = "url" THEN u8_to_string_64(cipher[1])
                ELSE u8_to_string_32(cipher[1]))
        /\ base_index = ModU64(XorU64(sc.key_sum_rev, sum), Len(EncodedBody) + 1)

\* An encoder has inserted the base character where the sum over the
\* numeric base would not have put it.
InsertionSumWitness ==
    /\ op \in TransportEncodeOps
    /\ data # <<>>
    /\ base_index # ModU64(XorU64(sc.key_sum_rev,
                                  SumBytes(U64From(cipher[1]), EncodedBody)),
                           Len(EncodedBody) + 1)

\* The characters the QR encoder emits for the bases 0..31.
QrBaseChars == {u8_to_string_32(b) : b \in 0..31}

\* C10 as stated: a QR decoder given a non-empty text takes the byte at the
\* recovered position for a base only if it is one of the 32 characters the
\* encoder emits, and then for the base that character stands for; on any
\* other byte it returns the Malformed error, the arithmetic on the byte
\* staying within 0..255.
QrBaseCharValidation ==
    (op \in QrDecodeOps /\ text # <<>>) =>
        LET c == text[base_index + 1]
        IN  /\ c \notin QrBaseChars => ret = Err(MalformedQr)
            /\ (c \in QrBaseChars /\ ret.ok) => u8_to_string_32(cipher[1]) = c
            /\ string_32_to_u8(c).overflow = ""
            /\ ret.err \notin {AddOverflow, SubOverflow}

\* C11: on any path in [0, n)^n, encrypt's ascending pass followed by
\* decrypt_inner's descending pass gives back the bytes in their order;
\* for n <= 2 so does the ascending pass run twice; and for every n > 2
\* there is a path on which the ascending pass run twice does not give
\* back the order of n distinct bytes.
SwapOrderAsymmetry ==
    LET n == Len(swaps.v)
    IN  /\ swaps.passes = <<"ascending", "descending">> =>
               swaps.encrypted = swaps.v
        /\ (swaps.passes = <<"ascending", "ascending">> /\ n <= 2) =>
               swaps.encrypted = swaps.v
        /\ (swaps.passes = <<"ascending">> /\ n > 2) =>
               \E path \in Paths(n) :
                   SwapAscending(SwapAscending(Positions(n), path, 0), path, 0)
                       # Positions(n)

\* The ascending pass has run twice on more than 2 distinct bytes and left
\* them out of order, on a path whose ascending pass the descending one
\* undoes.
SwapOrderAsymmetryWitness ==
    /\ swaps.passes = <<"ascending", "ascending">>
    /\ Len(swaps.v) > 2
    /\ swaps.v = Positions(Len(swaps.v))
    /\ swaps.encrypted # swaps.v
    /\ SwapDescending(SwapAscending(swaps.v, swaps.path, 0), swaps.path,
                      Len(swaps.path)) = swaps.v

====
